---- MODULE Spec2Model ----
(***************************************************************************)
(* Model of www/index.js of wasm-game-of-life: the play/pause animation    *)
(* controller, the frame step (renderLoop), the FPS monitor (fps.render),  *)
(* the canvas click mapping and the reset / slider controls.               *)
(*                                                                         *)
(* One action is one handler run to completion (the page is                *)
(* single-threaded and non-preemptive).  The platform frame scheduler is   *)
(* the set `scheduled` of pending callback handles.  The engine (Universe) *)
(* is an external module: the model records the commands sent to it.       *)
(*                                                                         *)
(* Frame rates are floating-point numbers in the source.  Here a rate is   *)
(* a fixed-point integer in units of 1/1000 frame per second, and the      *)
(* IEEE value Infinity (1 / 0 * 1000) is the distinguished value Infinity, *)
(* larger than every finite rate and absorbing under addition.             *)
(* Time is in whole milliseconds of the monotonic clock.                   *)
(***************************************************************************)
EXTENDS Integers, Sequences, FiniteSets, TLC

\* ------------------------------------------------------------------------
\* Bounds of the model
\* ------------------------------------------------------------------------
Width == 3            \* universe.width(), cells per row
Height == 2           \* universe.height(), cells per column
MaxSteps == 2         \* frame steps (renderLoop runs) explored by Spec
MaxNow == 1           \* clock readings explored by Spec
MaxRecorded == 150    \* fps.render calls explored by SpecFps

\* ------------------------------------------------------------------------
\* Program constants
\* ------------------------------------------------------------------------
CELL_SIZE == 10
DEAD_COLOR == "#E0DEF4"
ALIVE_COLOR == "#191724"
Dead == 0             \* Cell.Dead
Alive == 1            \* Cell.Alive
rangeSliderMin == 1
rangeSliderMax == 50
WindowSize == 100
Null == 0             \* animationId === null; real handles are 1, 2, ...
Infinity == 1000000000
FpsScale == 1000      \* fixed-point unit of a rate: 1/1000 fps

PauseGlyph == "pause-glyph"   \* the label written by play()
PlayGlyph == "play-glyph"     \* the label written by pause()
NoGlyph == "markup"           \* whatever the page's markup shows before pause()

canvasHeight == (CELL_SIZE + 1) * Height + 1
canvasWidth == (CELL_SIZE + 1) * Width + 1

VARIABLES
  pc,                 \* "start": module body not yet at line 213; "idle": between handlers
  animationId,        \* line 128
  scheduled,          \* handles pending in the platform frame scheduler
  nextHandle,         \* the handle the next requestAnimationFrame returns
  buttonText,         \* playPauseButton.textContent
  sliderValue,        \* rangeSlider.value
  frames,             \* fps.frames
  lastFrameTimeStamp, \* fps.lastFrameTimeStamp
  fpsText,            \* the four statistics shown in fps.textContent
  now,                \* performance.now()
  handler,            \* the handler that ran last
  trace,              \* the calls made by that handler, in order
  engineCall,         \* the engine command issued by that handler, if any
  cancelArg,          \* the argument of that handler's cancelAnimationFrame, if any
  clickInside,        \* last click: pointer within the bounding rectangle
  clickPixel,         \* last click: the raster pixel <<x, y>> under the pointer
  clickKeys,          \* last click: event.ctrlKey and event.shiftKey
  canvas,             \* what the canvas shows and which view drawCells read
  cells,              \* SpecDraw: the bytes of the view drawCells reads
  fills,              \* SpecDraw: the fillRect calls of the last drawCells
  tickMultiplier,     \* the slider value read by the last frame step
  lastDelta,          \* the delta computed by the last fps.render
  ran,                \* handle whose callback the last frame step ran for (Null: called by play)
  cancelled,          \* handles cancelled while pending
  steps,              \* number of frame steps so far
  stepsSincePlay,     \* number of frame steps since the last play()
  quickPause,         \* the last play() was followed immediately by pause()
  toggleParity,       \* number of toggle activations so far, modulo 2
  played,             \* play() has been activated at least once
  allSamples,         \* every rate ever computed by fps.render, in order
  jitter              \* SpecFps: the clock pattern of the run

vars == <<pc, animationId, scheduled, nextHandle, buttonText, sliderValue,
          frames, lastFrameTimeStamp, fpsText, now, handler, trace,
          engineCall, cancelArg, clickInside, clickPixel, clickKeys, canvas,
          cells, fills, tickMultiplier, lastDelta,
          ran, cancelled, steps, stepsSincePlay, quickPause, toggleParity,
          played, allSamples, jitter>>

ctrlVars == <<animationId, scheduled, nextHandle, buttonText>>
fpsVars == <<frames, lastFrameTimeStamp, fpsText, lastDelta, allSamples>>
ghostPlay == <<stepsSincePlay, quickPause, toggleParity, played>>
clickVars == <<clickInside, clickPixel, clickKeys>>
drawVars == <<cells, fills>>

\* ------------------------------------------------------------------------
\* Helpers
\* ------------------------------------------------------------------------
Range(s) == {s[i] : i \in 1..Len(s)}

Count(s, e) == Cardinality({i \in 1..Len(s) : s[i] = e})

Min2(a, b) == IF a <= b THEN a ELSE b

Max2(a, b) == IF a >= b THEN a ELSE b

Repeat(e, n) == [i \in 1..n |-> e]

\* ------------------------------------------------------------------------
\* fps.render (lines 28-61)
\* ------------------------------------------------------------------------
\* const fps = 1 / delta * 1000;
FpsOf(delta) ==
  IF delta = 0 THEN Infinity
  ELSE IF delta > 0 THEN (1000 * FpsScale) \div delta
  ELSE 0 - ((1000 * FpsScale) \div (0 - delta))

\* IEEE addition on the rates of the window
AddRate(a, b) == IF a = Infinity \/ b = Infinity THEN Infinity ELSE a + b

\* Math.round of a rate, in whole frames per second
RoundRate(a) == IF a = Infinity THEN Infinity ELSE (a + (FpsScale \div 2)) \div FpsScale

\* sum += this.frames[i], over the window (halving keeps the evaluation shallow)
RECURSIVE SumFrames(_)
SumFrames(f) ==
  IF f = <<>> THEN 0
  ELSE IF Len(f) = 1 THEN AddRate(0, f[1])
  ELSE LET half == Len(f) \div 2
       IN  AddRate(SumFrames(SubSeq(f, 1, half)),
                   SumFrames(SubSeq(f, half + 1, Len(f))))

\* min = Math.min(this.frames[i], min), from Infinity
MinFrames(f) ==
  IF f = <<>> THEN Infinity
  ELSE Min2(Infinity, CHOOSE m \in Range(f) : \A x \in Range(f) : m <= x)

\* max = Math.max(this.frames[i], max), from -Infinity
MaxFrames(f) ==
  IF f = <<>> THEN 0 - Infinity
  ELSE Max2(0 - Infinity, CHOOSE m \in Range(f) : \A x \in Range(f) : m >= x)

MeanFrames(f) ==
  IF SumFrames(f) = Infinity THEN Infinity ELSE SumFrames(f) \div Len(f)

\* this.frames.push(fps); if (this.frames.length > 100) this.frames.shift();
PushFrameDropNewest(f, fps) ==
  IF Len(f) + 1 > WindowSize THEN f ELSE Append(f, fps)

PushFrame(f, fps) ==
  LET pushed == Append(f, fps)
  IN  IF Len(pushed) > WindowSize THEN Tail(pushed) ELSE pushed

fpsRender(f, last, t) ==
  LET delta == t - last
      fps == FpsOf(delta)
      fr == PushFrame(f, fps)
  IN  [frames |-> fr, lastFrameTimeStamp |-> t, delta |-> delta, fps |-> fps,
       text |-> [latest |-> RoundRate(fps), mean |-> RoundRate(MeanFrames(fr)),
                 min |-> RoundRate(MinFrames(fr)), max |-> RoundRate(MaxFrames(fr))]]

NoText == [latest |-> 0, mean |-> 0, min |-> 0, max |-> 0]

\* ------------------------------------------------------------------------
\* The platform frame scheduler
\* ------------------------------------------------------------------------
\* cancelAnimationFrame(id): removes the callback with that handle, if any
cancelAnimationFrame(sch, id) == sch \ {id}

requestAnimationFrameDropped(sch, h) == sch

\* requestAnimationFrame(cb): adds a callback under a fresh handle
requestAnimationFrame(sch, h) == sch \cup {h}

\* ------------------------------------------------------------------------
\* isPaused / play / pause (lines 128-145)
\* ------------------------------------------------------------------------
isPausedAlways(id) == TRUE

isPausedInverted(id) == id # Null

isPaused(id) == id = Null

pauseNoCancel(c) ==
  [animationId |-> Null,
   scheduled |-> c.scheduled,
   buttonText |-> PlayGlyph,
   cancelArg |-> <<c.animationId>>]

pauseWrongGlyph(c) ==
  [animationId |-> Null,
   scheduled |-> cancelAnimationFrame(c.scheduled, c.animationId),
   buttonText |-> PauseGlyph,
   cancelArg |-> <<c.animationId>>]

pauseKeepsHandle(c) ==
  [animationId |-> c.animationId,
   scheduled |-> cancelAnimationFrame(c.scheduled, c.animationId),
   buttonText |-> PlayGlyph,
   cancelArg |-> <<c.animationId>>]

pause(c) ==
  [animationId |-> Null,
   scheduled |-> cancelAnimationFrame(c.scheduled, c.animationId),
   buttonText |-> PlayGlyph,
   cancelArg |-> <<c.animationId>>]

pauseTrace == <<"cancelAnimationFrame">>

ctrl == [animationId |-> animationId, scheduled |-> scheduled,
         buttonText |-> buttonText, cancelArg |-> cancelArg]

\* ------------------------------------------------------------------------
\* drawCells (lines 83-126)
\* ------------------------------------------------------------------------
\* The bytes of a view: Cell.Dead and Cell.Alive
CellStates == {Dead, Alive}

CellIndexes == 0..(Width * Height - 1)

getIndex(row, column) == row * Width + column

\* for (row = 0; row < height; row++) for (col = 0; col < width; col++)
RowMajor == [k \in 1..(Width * Height) |-> <<(k - 1) \div Width, (k - 1) % Width>>]

\* ctx.fillRect(col * (CELL_SIZE + 1) + 1, row * (CELL_SIZE + 1) + 1, CELL_SIZE, CELL_SIZE)
fillRect(style, row, col) ==
  [fillStyle |-> style,
   x |-> col * (CELL_SIZE + 1) + 1,
   y |-> row * (CELL_SIZE + 1) + 1,
   w |-> CELL_SIZE,
   h |-> CELL_SIZE]

\* one pass of drawCells: the cells whose byte is `state`, filled in `style`
passFills(c, state, style) ==
  LET Wanted(rc) == c[getIndex(rc[1], rc[2])] = state
      visited == SelectSeq(RowMajor, Wanted)
  IN  [k \in 1..Len(visited) |-> fillRect(style, visited[k][1], visited[k][2])]

styleOf(byte) == IF byte = Alive THEN ALIVE_COLOR ELSE DEAD_COLOR

drawCellsSinglePass(c) ==
  [k \in 1..(Width * Height) |->
     fillRect(styleOf(c[getIndex(RowMajor[k][1], RowMajor[k][2])]),
              RowMajor[k][1], RowMajor[k][2])]

drawCellsFills(c) ==
  passFills(c, Alive, ALIVE_COLOR) \o passFills(c, Dead, DEAD_COLOR)

\* ------------------------------------------------------------------------
\* What the canvas shows, and the view drawCells reads, along the calls of
\* a handler.  shown: the painted cells are the engine's current cells;
\* viewFresh: the view last obtained from universe.cells() was obtained
\* after the last engine mutation; staleRead: some drawCells has read a
\* view obtained before a mutation.
\* ------------------------------------------------------------------------
EngineMutations ==
  {"tick", "toggle_cell", "make_glider", "make_pulsar", "reset_rand", "reset_dead"}

NoCanvas == [shown |-> FALSE, viewFresh |-> FALSE, staleRead |-> FALSE]

\* a mutating engine call: the canvas is out of date, views are invalid
engineMutated(cv) == [cv EXCEPT !.shown = FALSE, !.viewFresh = FALSE]

drawCellsCachedView(cv) ==
  [shown |-> cv.viewFresh,
   viewFresh |-> cv.viewFresh,
   staleRead |-> cv.staleRead \/ ~cv.viewFresh]

\* drawCells (lines 88-89): takes a new view, then reads and paints it
drawCellsCall(cv) ==
  [shown |-> TRUE, viewFresh |-> TRUE, staleRead |-> cv.staleRead]

callEffect(call, cv) ==
  IF call \in EngineMutations THEN engineMutated(cv)
  ELSE IF call = "drawCells" THEN drawCellsCall(cv)
  ELSE cv

\* the calls with back-to-back repetitions of one call dropped: repeating a
\* mutation, or a repaint, has the effect of one
Squeeze(calls) ==
  LET keep == {i \in 1..Len(calls) : i = 1 \/ calls[i] # calls[i - 1]}
  IN  [k \in 1..Cardinality(keep) |->
         calls[CHOOSE i \in keep : Cardinality({j \in keep : j <= i}) = k]]

\* the canvas after the calls of a handler, made in order from cv
RunCalls(calls, cv) ==
  LET sq == Squeeze(calls)
      after[i \in 0..Len(sq)] ==
        IF i = 0 THEN cv ELSE callEffect(sq[i], after[i - 1])
  IN  after[Len(sq)]

\* ------------------------------------------------------------------------
\* renderLoop (lines 200-211)
\* ------------------------------------------------------------------------
\* for (let i = 0; i < rangeSlider.value; i++) universe.tick();
tickCount(value) == value

renderLoopTraceDrawFirst(k) ==
  <<"fps.render", "drawGrid", "drawCells">> \o Repeat("tick", tickCount(k))
     \o <<"requestAnimationFrame">>

renderLoopTrace(k) ==
  <<"fps.render">> \o Repeat("tick", tickCount(k))
     \o <<"drawGrid", "drawCells", "requestAnimationFrame">>

NoCall == [op |-> "none", row |-> 0, col |-> 0]

\* The frame step, from the scheduler state sch left by its caller.
renderLoop(sch) ==
  LET r == fpsRender(frames, lastFrameTimeStamp, now)
  IN  /\ frames' = r.frames
      /\ lastFrameTimeStamp' = r.lastFrameTimeStamp
      /\ fpsText' = r.text
      /\ lastDelta' = r.delta
      /\ allSamples' = Append(allSamples, r.fps)
      /\ tickMultiplier' = sliderValue
      /\ trace' = renderLoopTrace(sliderValue)
      /\ canvas' = RunCalls(trace', canvas)
      /\ animationId' = nextHandle
      /\ scheduled' = requestAnimationFrame(sch, nextHandle)
      /\ nextHandle' = nextHandle + 1
      /\ steps' = steps + 1
      /\ engineCall' = NoCall
      /\ cancelArg' = <<>>

NoKeys == [ctrlKey |-> FALSE, shiftKey |-> FALSE]

\* a handler other than the canvas click listener: no click was handled
noClick ==
  /\ clickInside' = FALSE
  /\ clickPixel' = <<0, 0>>
  /\ clickKeys' = NoKeys

\* ------------------------------------------------------------------------
\* Initial state: the module body up to line 212
\* ------------------------------------------------------------------------
Base ==
  /\ pc = "start"
  /\ animationId = Null
  /\ scheduled = {}
  /\ nextHandle = 1
  /\ buttonText = NoGlyph
  /\ sliderValue = rangeSliderMin
  /\ frames = <<>>
  /\ lastFrameTimeStamp = 0
  /\ fpsText = NoText
  /\ now = 0
  /\ handler = "init"
  /\ trace = <<>>
  /\ engineCall = NoCall
  /\ cancelArg = <<>>
  /\ clickInside = FALSE
  /\ clickPixel = <<0, 0>>
  /\ clickKeys = NoKeys
  /\ canvas = NoCanvas
  /\ fills = <<>>
  /\ tickMultiplier = 0
  /\ lastDelta = 0
  /\ ran = Null
  /\ cancelled = {}
  /\ steps = 0
  /\ stepsSincePlay = 0
  /\ quickPause = FALSE
  /\ toggleParity = 0
  /\ played = FALSE
  /\ allSamples = <<>>

AllDead == [i \in CellIndexes |-> Dead]

Init == Base /\ jitter = 0 /\ cells = AllDead

\* ------------------------------------------------------------------------
\* Startup sequence (lines 213-215): drawGrid(); drawCells(); pause();
\* ------------------------------------------------------------------------
StartupAutoPlay ==
  /\ pc = "start"
  /\ pc' = "idle"
  /\ buttonText' = PauseGlyph
  /\ renderLoop(scheduled)
  /\ handler' = "startup"
  /\ ran' = Null
  /\ stepsSincePlay' = 1
  /\ noClick
  /\ UNCHANGED <<sliderValue, now, cancelled, quickPause,
                 toggleParity, played, drawVars, jitter>>

Startup ==
  /\ pc = "start"
  /\ pc' = "idle"
  /\ LET p == pause(ctrl)
     IN  /\ animationId' = p.animationId
         /\ scheduled' = p.scheduled
         /\ buttonText' = p.buttonText
         /\ cancelArg' = p.cancelArg
         /\ cancelled' = cancelled \cup (scheduled \ p.scheduled)
  /\ handler' = "startup"
  /\ trace' = <<"drawGrid", "drawCells">> \o pauseTrace
  /\ canvas' = RunCalls(trace', canvas)
  /\ engineCall' = NoCall
  /\ ran' = Null
  /\ noClick
  /\ UNCHANGED <<nextHandle, sliderValue, fpsVars, now, tickMultiplier, steps, ghostPlay, drawVars, jitter>>

\* ------------------------------------------------------------------------
\* playPauseButton click listener (lines 147-153)
\* ------------------------------------------------------------------------
play ==
  /\ steps < MaxSteps
  /\ buttonText' = PauseGlyph
  /\ renderLoop(scheduled)
  /\ handler' = "play"
  /\ ran' = Null
  /\ stepsSincePlay' = 1
  /\ quickPause' = FALSE
  /\ played' = TRUE
  /\ UNCHANGED cancelled

pauseClicked ==
  /\ LET p == pause(ctrl)
     IN  /\ animationId' = p.animationId
         /\ scheduled' = p.scheduled
         /\ buttonText' = p.buttonText
         /\ cancelArg' = p.cancelArg
         /\ cancelled' = cancelled \cup (scheduled \ p.scheduled)
  /\ handler' = "pause"
  /\ trace' = pauseTrace
  /\ canvas' = RunCalls(trace', canvas)
  /\ engineCall' = NoCall
  /\ ran' = Null
  /\ quickPause' = (handler = "play")
  /\ UNCHANGED <<nextHandle, fpsVars, tickMultiplier, steps, stepsSincePlay, played>>

ToggleClick ==
  /\ pc = "idle"
  /\ IF isPaused(animationId) THEN play ELSE pauseClicked
  /\ toggleParity' = 1 - toggleParity
  /\ noClick
  /\ UNCHANGED <<pc, sliderValue, now, drawVars, jitter>>

\* ------------------------------------------------------------------------
\* The scheduler delivers a pending frame callback
\* ------------------------------------------------------------------------
FrameCallback ==
  /\ pc = "idle"
  /\ steps < MaxSteps
  /\ \E h \in scheduled :
       /\ renderLoop(scheduled \ {h})
       /\ ran' = h
  /\ handler' = "frame"
  /\ stepsSincePlay' = stepsSincePlay + 1
  /\ noClick
  /\ UNCHANGED <<pc, buttonText, sliderValue, now, cancelled,
                 quickPause, toggleParity, played, drawVars, jitter>>

\* ------------------------------------------------------------------------
\* The monotonic clock moves on
\* ------------------------------------------------------------------------
ClockAdvance ==
  /\ now < MaxNow
  /\ now' = now + 1
  /\ UNCHANGED <<pc, ctrlVars, sliderValue, fpsVars, handler, trace, canvas,
                 engineCall, cancelArg, clickVars, tickMultiplier, ran,
                 cancelled, steps, ghostPlay, drawVars, jitter>>

\* ------------------------------------------------------------------------
\* canvas click listener (lines 155-177)
\* ------------------------------------------------------------------------
\* canvas.getBoundingClientRect(): the canvas displayed at raster size, and
\* displayed stretched horizontally and squeezed vertically
BoundingRects ==
  { [left |-> 8, top |-> 8, width |-> canvasWidth, height |-> canvasHeight],
    [left |-> 8, top |-> 8, width |-> 2 * canvasWidth,
     height |-> (canvasHeight + 1) \div 2] }

\* pointer positions (clientX, clientY) on, inside and just outside the
\* edges of the displayed canvas
ClickPoints(rect) ==
  LET l == rect.left
      r == rect.left + rect.width
      t == rect.top
      b == rect.top + rect.height
  IN  { <<l - 1, t - 1>>, <<l, t>>, <<l + (rect.width \div 2), t + (rect.height \div 2)>>,
        <<r - 1, b - 1>>, <<r, b>>, <<r + 1, b + 1>>,
        <<l - 1, t + (rect.height \div 2)>>, <<l + (rect.width \div 2), t - 1>> }

WithinRect(rect, x, y) ==
  /\ rect.left <= x /\ x <= rect.left + rect.width
  /\ rect.top <= y /\ y <= rect.top + rect.height

\* the raster pixel holding (client - origin) * (raster / displayed)
rasterOf(client, origin, raster, displayed) ==
  ((client - origin) * raster) \div displayed

cellOfUnscaled(client, origin, raster, displayed) ==
  (client - origin) \div (CELL_SIZE + 1)

\* Math.floor(((client - origin) * (raster / displayed)) / (CELL_SIZE + 1)),
\* in exact arithmetic
cellOf(client, origin, raster, displayed) ==
  ((client - origin) * raster) \div (displayed * (CELL_SIZE + 1))

clampOffByOne(cell, size) == Min2(cell, size)

\* Math.min(cell, size - 1)
clamp(cell, size) == Min2(cell, size - 1)

rowOf(clientY, rect) == clamp(cellOf(clientY, rect.top, canvasHeight, rect.height), Height)

colOf(clientX, rect) == clamp(cellOf(clientX, rect.left, canvasWidth, rect.width), Width)

commandOfShiftFirst(ctrlKey, shiftKey) ==
  IF shiftKey THEN "make_pulsar"
  ELSE IF ctrlKey THEN "make_glider"
  ELSE "toggle_cell"

\* if (event.ctrlKey) make_glider else if (event.shiftKey) make_pulsar else toggle_cell
commandOf(ctrlKey, shiftKey) ==
  IF ctrlKey THEN "make_glider"
  ELSE IF shiftKey THEN "make_pulsar"
  ELSE "toggle_cell"

\* the engine command, then drawGrid(); drawCells();
clickTraceNoRepaint(op) == <<op>>

clickTrace(op) == <<op, "drawGrid", "drawCells">>

CanvasClick ==
  /\ pc = "idle"
  /\ \E rect \in BoundingRects :
       \E pt \in ClickPoints(rect) :
         \E ctrlKey \in BOOLEAN, shiftKey \in BOOLEAN :
           LET clientX == pt[1]
               clientY == pt[2]
           IN  /\ engineCall' = [op |-> commandOf(ctrlKey, shiftKey),
                                 row |-> rowOf(clientY, rect),
                                 col |-> colOf(clientX, rect)]
               /\ trace' = clickTrace(commandOf(ctrlKey, shiftKey))
               /\ canvas' = RunCalls(trace', canvas)
               /\ clickInside' = WithinRect(rect, clientX, clientY)
               /\ clickPixel' = <<rasterOf(clientX, rect.left, canvasWidth, rect.width),
                                  rasterOf(clientY, rect.top, canvasHeight, rect.height)>>
               /\ clickKeys' = [ctrlKey |-> ctrlKey, shiftKey |-> shiftKey]
  /\ handler' = "click"
  /\ cancelArg' = <<>>
  /\ ran' = Null
  /\ UNCHANGED <<pc, ctrlVars, sliderValue, fpsVars, now, tickMultiplier,
                 cancelled, steps, ghostPlay, drawVars, jitter>>

\* ------------------------------------------------------------------------
\* reset-rand and reset-dead click listeners (lines 184-198)
\* ------------------------------------------------------------------------
ResetRand ==
  /\ pc = "idle"
  /\ handler' = "reset-rand"
  /\ trace' = <<"reset_rand", "drawGrid", "drawCells">>
  /\ canvas' = RunCalls(trace', canvas)
  /\ engineCall' = [op |-> "reset_rand", row |-> 0, col |-> 0]
  /\ cancelArg' = <<>>
  /\ ran' = Null
  /\ noClick
  /\ UNCHANGED <<pc, ctrlVars, sliderValue, fpsVars, now, tickMultiplier, cancelled, steps, ghostPlay, drawVars, jitter>>

ResetDeadPauses ==
  /\ pc = "idle"
  /\ handler' = "reset-dead"
  /\ trace' = <<"reset_dead", "drawGrid", "drawCells">> \o pauseTrace
  /\ canvas' = RunCalls(trace', canvas)
  /\ engineCall' = [op |-> "reset_dead", row |-> 0, col |-> 0]
  /\ LET p == pause(ctrl)
     IN  /\ animationId' = p.animationId
         /\ scheduled' = p.scheduled
         /\ buttonText' = p.buttonText
         /\ cancelArg' = p.cancelArg
         /\ cancelled' = cancelled \cup (scheduled \ p.scheduled)
  /\ ran' = Null
  /\ noClick
  /\ UNCHANGED <<pc, nextHandle, sliderValue, fpsVars, now, tickMultiplier,
                 steps, ghostPlay, drawVars, jitter>>

ResetDead ==
  /\ pc = "idle"
  /\ handler' = "reset-dead"
  /\ trace' = <<"reset_dead", "drawGrid", "drawCells">>
  /\ canvas' = RunCalls(trace', canvas)
  /\ engineCall' = [op |-> "reset_dead", row |-> 0, col |-> 0]
  /\ cancelArg' = <<>>
  /\ ran' = Null
  /\ noClick
  /\ UNCHANGED <<pc, ctrlVars, sliderValue, fpsVars, now, tickMultiplier, cancelled, steps, ghostPlay, drawVars, jitter>>

\* ------------------------------------------------------------------------
\* The range slider (lines 179-182): min 1, max 50, initially 1
\* ------------------------------------------------------------------------
SliderChoices == {rangeSliderMin, rangeSliderMin + 1, rangeSliderMax}

SliderChange ==
  /\ pc = "idle"
  /\ \E v \in SliderChoices : v # sliderValue /\ sliderValue' = v
  /\ handler' = "slider"
  /\ trace' = <<>>
  /\ canvas' = canvas
  /\ engineCall' = NoCall
  /\ cancelArg' = <<>>
  /\ ran' = Null
  /\ noClick
  /\ UNCHANGED <<pc, ctrlVars, fpsVars, now, tickMultiplier,
                 cancelled, steps, ghostPlay, drawVars, jitter>>

Next ==
  \/ Startup
  \/ ToggleClick
  \/ FrameCallback
  \/ CanvasClick
  \/ ResetRand
  \/ ResetDead
  \/ SliderChange
  \/ ClockAdvance

Spec == Init /\ [][Next]_vars

\* ------------------------------------------------------------------------
\* The FPS monitor on its own: fps.render called frame after frame.  The run
\* draws a clock pattern, and frame i arrives FrameDelta(jitter, i)
\* milliseconds after the previous one (0: the clock did not move).
\* ------------------------------------------------------------------------
JitterChoices == 0..2

FrameDelta(j, i) == j + (i % 7)

InitFps == Base /\ jitter \in JitterChoices /\ cells = AllDead

RecordFrame ==
  /\ Len(allSamples) < MaxRecorded
  /\ now' = now + FrameDelta(jitter, Len(allSamples))
  /\ LET r == fpsRender(frames, lastFrameTimeStamp, now')
     IN  /\ frames' = r.frames
         /\ lastFrameTimeStamp' = r.lastFrameTimeStamp
         /\ fpsText' = r.text
         /\ lastDelta' = r.delta
         /\ allSamples' = Append(allSamples, r.fps)
  /\ handler' = "fps.render"
  /\ UNCHANGED <<pc, ctrlVars, sliderValue, trace, engineCall, cancelArg,
                 canvas, clickVars, tickMultiplier, ran, cancelled, steps,
                 ghostPlay, drawVars, jitter>>

NextFps == RecordFrame

SpecFps == InitFps /\ [][NextFps]_vars

\* ------------------------------------------------------------------------
\* drawCells on its own: the view holds any bytes Alive / Dead, and
\* drawCells paints it.
\* ------------------------------------------------------------------------
InitDraw == Base /\ jitter = 0 /\ cells \in [CellIndexes -> CellStates]

DrawCells ==
  /\ fills' = drawCellsFills(cells)
  /\ handler' = "drawCells"
  /\ UNCHANGED <<pc, ctrlVars, sliderValue, fpsVars, now, trace, engineCall,
                 cancelArg, canvas, clickVars, tickMultiplier, ran, cancelled,
                 steps, ghostPlay, cells, jitter>>

NextDraw == DrawCells

SpecDraw == InitDraw /\ [][NextDraw]_vars

\* ------------------------------------------------------------------------
\* The page under a fair frame scheduler: a pending frame callback is
\* eventually delivered.  The events are those of the toggle, the
\* scheduler, the resets, the slider and the clock; the canvas click, which
\* touches neither the handle nor the scheduler, is left to Spec.
\* ------------------------------------------------------------------------
NextLive ==
  \/ Startup
  \/ ToggleClick
  \/ FrameCallback
  \/ ResetRand
  \/ ResetDead
  \/ SliderChange
  \/ ClockAdvance

SpecLive == Init /\ [][NextLive]_vars /\ WF_vars(FrameCallback)

\* ========================================================================
\* Properties
\* ========================================================================

\* C1: between handlers the stored handle animationId is non-null exactly
\* when a frame callback is pending in the scheduler (the controller is
\* Running), and the pending callback is the one the handle names.
C1_HandleIffRunning ==
  pc = "idle" =>
    /\ (animationId # Null) <=> (scheduled # {})
    /\ scheduled = IF animationId = Null THEN {} ELSE {animationId}

C1_Witness ==
  /\ pc = "idle" /\ handler = "frame"
  /\ animationId # Null /\ animationId \in scheduled

\* C2 as stated: a pause() made while already Paused (the one at startup)
\* leaves the controller Paused with a null handle and, being guarded by a
\* check that a handle is present, makes no cancellation call.
C2_PauseGuarded ==
  handler = "startup" =>
    /\ animationId = Null
    /\ scheduled = {}
    /\ "cancelAnimationFrame" \notin Range(trace)

\* C2 amended: pause() is idempotent in effect.  After one pause() the
\* handle is null; a pause() made while Paused (the one at startup, or one
\* repeated after any pause()) leaves the handle null, the label on the
\* play glyph and the scheduler's pending callbacks as they were.  It is not
\* guarded: it still calls cancelAnimationFrame, with the null handle.
C2_PauseIdempotent ==
  LET p1 == pause(ctrl)
      p2 == pause(p1)
  IN  /\ p1.animationId = Null
      /\ p2.animationId = Null
      /\ p2.scheduled = p1.scheduled
      /\ p2.buttonText = p1.buttonText
      /\ p2.cancelArg = <<Null>>
      /\ handler = "startup" =>
           /\ animationId = Null
           /\ scheduled = {}
           /\ buttonText = PlayGlyph
           /\ cancelArg = <<Null>>
           /\ Count(trace, "cancelAnimationFrame") = 1

C2_Witness ==
  /\ handler = "startup"
  /\ isPaused(animationId)
  /\ cancelArg = <<Null>>

\* C3: when play() is followed immediately by pause(), exactly the one
\* frame step made by play() has run since that play(), nothing is left
\* pending, and no frame step ever runs for a cancelled handle.
C3_PlayThenPause ==
  /\ quickPause => (stepsSincePlay <= 1 /\ scheduled = {})
  /\ ran \notin cancelled

C3_Witness ==
  /\ quickPause
  /\ cancelled # {}
  /\ handler = "click"
  /\ now > lastFrameTimeStamp

\* C4: between handlers the controller is Running exactly when the number
\* of toggle activations so far is odd.
C4_ToggleParity ==
  pc = "idle" => ((animationId # Null) <=> (toggleParity = 1))

C4_Witness ==
  /\ pc = "idle" /\ handler = "click"
  /\ toggleParity = 1 /\ animationId # Null
  /\ steps >= 2 /\ cancelled # {}

\* C5: the startup sequence draws grid and cells once and pauses; until the
\* first play() there is no handle, no pending callback, and no handler
\* advances the engine or takes a performance sample.
C5_StartupPaused ==
  /\ handler = "startup" =>
       /\ Count(trace, "drawGrid") = 1
       /\ Count(trace, "drawCells") = 1
       /\ SubSeq(trace, 1, 2) = <<"drawGrid", "drawCells">>
  /\ (pc = "idle" /\ ~played) =>
       /\ animationId = Null
       /\ scheduled = {}
       /\ steps = 0
       /\ frames = <<>>
       /\ allSamples = <<>>
       /\ "tick" \notin Range(trace)
       /\ "fps.render" \notin Range(trace)
       /\ "requestAnimationFrame" \notin Range(trace)

C5_Witness ==
  /\ pc = "idle" /\ ~played
  /\ handler = "startup"
  /\ buttonText = PlayGlyph

\* C6: a frame step makes, in this order, one performance sample, as many
\* engine advances as the slider value read at that step (between 1 and
\* 50), one drawGrid, one drawCells and one requestAnimationFrame whose
\* handle is stored in animationId.
C6_FrameStepOrder ==
  handler \in {"play", "frame"} =>
    /\ tickMultiplier = sliderValue
    /\ tickMultiplier \in rangeSliderMin..rangeSliderMax
    /\ Len(trace) = tickMultiplier + 4
    /\ trace[1] = "fps.render"
    /\ \A i \in 2..(tickMultiplier + 1) : trace[i] = "tick"
    /\ trace[tickMultiplier + 2] = "drawGrid"
    /\ trace[tickMultiplier + 3] = "drawCells"
    /\ trace[tickMultiplier + 4] = "requestAnimationFrame"
    /\ animationId = nextHandle - 1
    /\ animationId \in scheduled

C6_Witness ==
  /\ handler = "frame"
  /\ tickMultiplier = rangeSliderMax
  /\ Count(trace, "tick") = rangeSliderMax

\* C7: the FPS window never holds more than 100 rates, it always holds the
\* most recent ones in arrival order (oldest evicted first), and after 150
\* recorded frames it holds exactly samples 51..150.
C7_WindowKeepsLatest ==
  LET n == Len(allSamples)
  IN  /\ Len(frames) <= WindowSize
      /\ Len(frames) = Min2(n, WindowSize)
      /\ frames = SubSeq(allSamples, n - Len(frames) + 1, n)
      /\ n = 150 => frames = SubSeq(allSamples, 51, 150)

C7_Witness ==
  /\ Len(allSamples) = 150
  /\ Len(frames) = WindowSize
  /\ frames[1] = allSamples[51]
  /\ frames[1] # allSamples[50]

\* C8: when fps.render observes a non-positive delta the sample is
\* dropped: the window is left as it was and holds no infinite rate.
C8_DroppedSample ==
  [][(steps' = steps + 1 /\ now - lastFrameTimeStamp <= 0)
       => (frames' = frames /\ Infinity \notin Range(frames'))]_vars

\* C9: a click whose pointer lies within the displayed bounding rectangle,
\* edges included, issues its engine command with a row in 0..height-1 and
\* a column in 0..width-1.
C9_ClickInsideInRange ==
  (handler = "click" /\ clickInside) =>
    /\ engineCall.row \in 0..(Height - 1)
    /\ engineCall.col \in 0..(Width - 1)

C9_Witness ==
  /\ handler = "click" /\ clickInside
  /\ engineCall.row = Height - 1
  /\ engineCall.col = Width - 1

\* C10: every click, wherever the pointer is, issues its engine command
\* with a row and a column clamped into the grid.
C10_EveryClickClamped ==
  handler = "click" =>
    /\ engineCall.op \in {"toggle_cell", "make_glider", "make_pulsar"}
    /\ 0 <= engineCall.row /\ engineCall.row <= Height - 1
    /\ 0 <= engineCall.col /\ engineCall.col <= Width - 1

\* C11: a click with no modifier on a raster pixel (x, y) inside the grid
\* calls toggle_cell once, with row = floor(y / (CELL_SIZE + 1)) and
\* col = floor(x / (CELL_SIZE + 1)), and no other engine command; on a
\* 10 x 10 grid shown at raster size, pixel (25, 35) gives row 3, col 2.
C11_ToggleAtPixel ==
  /\ (/\ handler = "click"
      /\ ~clickKeys.ctrlKey /\ ~clickKeys.shiftKey
      /\ clickPixel[1] \in 0..((CELL_SIZE + 1) * Width - 1)
      /\ clickPixel[2] \in 0..((CELL_SIZE + 1) * Height - 1))
     => /\ engineCall = [op |-> "toggle_cell",
                         row |-> clickPixel[2] \div (CELL_SIZE + 1),
                         col |-> clickPixel[1] \div (CELL_SIZE + 1)]
        /\ Count(trace, "toggle_cell") = 1
        /\ Range(trace) \cap (EngineMutations \ {"toggle_cell"}) = {}
  /\ clamp(cellOf(35, 0, 111, 111), 10) = 3
  /\ clamp(cellOf(25, 0, 111, 111), 10) = 2

C11_Witness ==
  /\ handler = "click"
  /\ clickKeys = NoKeys
  /\ clickPixel = <<canvasWidth \div 2, canvasHeight \div 2>>
  /\ engineCall.op = "toggle_cell"
  /\ engineCall.row = Height \div 2

\* C12: a click issues exactly one engine command: make_glider when ctrl
\* is held (shift held or not), otherwise make_pulsar when shift is held,
\* otherwise toggle_cell.
C12_ModifierPriority ==
  handler = "click" =>
    /\ clickKeys.ctrlKey => engineCall.op = "make_glider"
    /\ (~clickKeys.ctrlKey /\ clickKeys.shiftKey) => engineCall.op = "make_pulsar"
    /\ (~clickKeys.ctrlKey /\ ~clickKeys.shiftKey) => engineCall.op = "toggle_cell"
    /\ Cardinality({i \in 1..Len(trace) : trace[i] \in EngineMutations}) = 1
    /\ trace[1] = engineCall.op

C12_Witness ==
  /\ handler = "click"
  /\ clickKeys.ctrlKey /\ clickKeys.shiftKey
  /\ engineCall.op = "make_glider"

\* C13: every handler that calls a mutating engine operation calls
\* drawGrid and then drawCells after its last mutation, so between
\* handlers the canvas shows the engine's current cells, paused or running.
C13_RepaintAfterMutation ==
  /\ pc = "idle" => canvas.shown
  /\ \A i \in 1..Len(trace) :
       trace[i] \in EngineMutations =>
         \E j \in (i + 1)..(Len(trace) - 1) :
           /\ trace[j] = "drawGrid"
           /\ trace[j + 1] = "drawCells"
           /\ \A k \in (j + 1)..Len(trace) : trace[k] \notin EngineMutations

C13_Witness ==
  /\ pc = "idle" /\ handler = "click"
  /\ isPaused(animationId) /\ played
  /\ engineCall.op = "toggle_cell"
  /\ canvas.shown

\* C14: drawCells fills every cell once, at the cell's pixel origin and in
\* the colour of its byte; the alive-coloured fills are as many as the
\* Alive bytes and all come before the dead-coloured fills, which are as
\* many as the Dead bytes; an all-Dead view gives no alive-coloured fill
\* and width * height dead-coloured fills.
C14_DrawCellsFills ==
  handler = "drawCells" =>
    LET nAlive == Cardinality({i \in CellIndexes : cells[i] = Alive})
        nDead == Cardinality({i \in CellIndexes : cells[i] = Dead})
        aliveAt == {k \in 1..Len(fills) : fills[k].fillStyle = ALIVE_COLOR}
        deadAt == {k \in 1..Len(fills) : fills[k].fillStyle = DEAD_COLOR}
    IN  /\ Len(fills) = Width * Height
        /\ Cardinality(aliveAt) = nAlive
        /\ Cardinality(deadAt) = nDead
        /\ \A a \in aliveAt : \A d \in deadAt : a < d
        /\ \A row \in 0..(Height - 1) : \A col \in 0..(Width - 1) :
             Cardinality({k \in 1..Len(fills) :
                            /\ fills[k].x = col * (CELL_SIZE + 1) + 1
                            /\ fills[k].y = row * (CELL_SIZE + 1) + 1
                            /\ fills[k].w = CELL_SIZE /\ fills[k].h = CELL_SIZE
                            /\ fills[k].fillStyle =
                                 (IF cells[row * Width + col] = Alive
                                  THEN ALIVE_COLOR ELSE DEAD_COLOR)}) = 1
        /\ cells = AllDead => (aliveAt = {} /\ Cardinality(deadAt) = Width * Height)

C14_Witness ==
  /\ handler = "drawCells"
  /\ cells[0] = Dead
  /\ cells[Width * Height - 1] = Alive
  /\ fills[1].fillStyle = ALIVE_COLOR
  /\ fills[Len(fills)].fillStyle = DEAD_COLOR

\* C15: no drawCells ever reads a view obtained before a mutating engine
\* call made since; the view held between handlers is the one obtained
\* after the last mutation.
C15_FreshView ==
  /\ ~canvas.staleRead
  /\ pc = "idle" => canvas.viewFresh

C15_Witness ==
  /\ handler = "frame"
  /\ steps >= 2
  /\ canvas.viewFresh /\ ~canvas.staleRead
  /\ Count(trace, "tick") = rangeSliderMax

\* C16: while the controller is Paused no frame step runs except the one
\* made by play(): a cancelled callback is never delivered.
C16_NoStepWhilePaused ==
  [][(pc = "idle" /\ isPaused(animationId) /\ steps' # steps)
       => (handler' = "play" /\ ran' = Null)]_vars

C16_Witness ==
  /\ pc = "idle" /\ isPaused(animationId)
  /\ cancelled # {}
  /\ handler = "reset-dead"
  /\ now > lastFrameTimeStamp
  /\ steps < MaxSteps

\* C17: under a fair frame scheduler, whenever the controller is Running
\* another frame step eventually runs, unless pause() is invoked first
\* (steps below the bound of the model).
C17_LoopContinues ==
  \A n \in 0..(MaxSteps - 1) :
    (animationId # Null /\ steps = n) ~> (steps > n \/ animationId = Null)

C17_Witness ==
  /\ handler = "frame"
  /\ stepsSincePlay >= 2
  /\ animationId \in scheduled

\* C18: at most one frame callback is pending at any time, and a pending
\* callback is always the one whose handle animationId holds.
C18_OneCallbackPending ==
  /\ Cardinality(scheduled) <= 1
  /\ \A h \in scheduled : h = animationId

C18_Witness ==
  /\ Cardinality(scheduled) = 1
  /\ handler = "frame"
  /\ steps >= 2
  /\ ran # Null /\ animationId = ran + 1

\* C19: between handlers the toggle label is the pause glyph exactly when
\* the controller is Running and the play glyph exactly when it is Paused.
C19_LabelAgrees ==
  pc = "idle" =>
    /\ (buttonText = PauseGlyph) <=> ~isPaused(animationId)
    /\ (buttonText = PlayGlyph) <=> isPaused(animationId)

C19_Witness ==
  /\ pc = "idle" /\ handler = "pause"
  /\ buttonText = PlayGlyph
  /\ steps >= 2

\* C20: the canvas click, randomize and clear handlers leave the handle,
\* the scheduler, the frame-step count, the FPS window and the previous
\* timestamp as they were and do not advance the engine; pause() leaves the
\* FPS window and timestamp as they were, and play() only appends its one
\* sample to the window, measured from the timestamp kept across the pause.
\* (A step that leaves the clock alone is a handler, named by handler'.)
C20_HandlersFrame ==
  [][/\ (now' = now /\ handler' \in {"click", "reset-rand", "reset-dead"}) =>
          /\ UNCHANGED <<animationId, scheduled, nextHandle, steps>>
          /\ UNCHANGED <<frames, lastFrameTimeStamp, allSamples, fpsText>>
          /\ "tick" \notin Range(trace')
          /\ "requestAnimationFrame" \notin Range(trace')
          /\ "cancelAnimationFrame" \notin Range(trace')
     /\ (now' = now /\ handler' = "pause") =>
          UNCHANGED <<frames, lastFrameTimeStamp, allSamples, fpsText>>
     /\ (now' = now /\ handler' = "play") =>
          /\ lastDelta' = now - lastFrameTimeStamp
          /\ Len(allSamples') = Len(allSamples) + 1
          /\ Len(frames) < WindowSize => SubSeq(frames', 1, Len(frames)) = frames
    ]_vars

C20_Witness ==
  /\ handler = "reset-dead"
  /\ ~isPaused(animationId)
  /\ frames # <<>>
  /\ steps >= 2

====
